---- MODULE Spec2Model ----
(***************************************************************************)
(* ElmProjectManager (module cache, project resolver, manifest loader) and *)
(* ElmCompletionProvider (completion context engine) as a state machine.   *)
(* Strings (paths, module names, document lines) are sequences of          *)
(* characters; a multi-letter atom such as "src" stands for a run of       *)
(* characters that is never split.                                         *)
(***************************************************************************)
EXTENDS Integers, Sequences, FiniteSets, TLC

\* ------------------------------------------------------------------ bounds

\* Longest document line the context classifier is enumerated over.
MaxLen == 3
\* The requests (editor events and manager calls) of one behaviour.
MaxRequests == 2
\* The files on disk are rewritten at most this many times in one behaviour.
MaxEdits == 1

\* ----------------------------------------------------------------- strings

\* null / undefined, where a record (module, project, cache entry) is expected.
Null == [nil |-> TRUE]
\* No text read yet.
None == "None"
\* Fs.readFile failed.
NoFile == "ENOENT"
\* parseElmModule threw.
ParseError == [error |-> "ParseError"]
\* No word range at the cursor.
NoRange == <<>>
Thrown == "TypeError"
Sep == "/"
Dot == "."

startsWith(s, d) == Len(d) <= Len(s) /\ SubSeq(s, 1, Len(d)) = d

\* String.prototype.lastIndexOf for a one-character needle: 0-based, -1 if absent.
lastIndexOf(s, c) ==
  LET hits == {i \in 1..Len(s) : s[i] = c}
  IN  IF hits = {} THEN -1 ELSE (CHOOSE i \in hits : \A j \in hits : j <= i) - 1

Max0(n) == IF n < 0 THEN 0 ELSE n

\* String.prototype.substring(a, b): negative arguments count as 0.
substring(s, a, b) == SubSeq(s, Max0(a) + 1, Max0(b))

RECURSIVE trimStart(_)
trimStart(s) == IF s # <<>> /\ Head(s) = " " THEN trimStart(Tail(s)) ELSE s

RECURSIVE trimEnd(_)
trimEnd(s) ==
  IF s # <<>> /\ s[Len(s)] = " " THEN trimEnd(SubSeq(s, 1, Len(s) - 1)) ELSE s

trim(s) == trimEnd(trimStart(s))

\* Path.join of two clean segments.
Join(a, b) == a \o <<Sep>> \o b

\* Path.dirname.
Dirname(p) == substring(p, 0, lastIndexOf(p, Sep))

RECURSIVE SeqMap(_, _)
SeqMap(F(_), s) == IF s = <<>> THEN <<>> ELSE <<F(Head(s))>> \o SeqMap(F, Tail(s))

RECURSIVE SeqFilter(_, _)
SeqFilter(P(_), s) ==
  IF s = <<>> THEN <<>>
  ELSE (IF P(Head(s)) THEN <<Head(s)>> ELSE <<>>) \o SeqFilter(P, Tail(s))

\* ------------------------------------------------------- cursor and context

Upper == {"L", "M", "R"}
Lower == {"a"}
\* /[A-Za-z0-9_.]+/
IdentChars == Upper \cup Lower \cup {Dot}
\* /[A-Za-z0-9_+-/*=.<>:&|^?%!]+/
WordChars == IdentChars \cup {"+"}
Alphabet == WordChars \cup {" "}

\* document.getWordRangeAtPosition(position, regex) on a one-line document:
\* the maximal run of characters of the class that encloses the 0-based
\* column pos (start <= pos <= end), as <<start, end>>, or NoRange.
getWordRangeAtPosition(line, pos, class) ==
  LET runs == {r \in (0..Len(line)) \X (0..Len(line)) :
                 /\ r[1] < r[2]
                 /\ \A i \in (r[1] + 1)..r[2] : line[i] \in class
                 /\ (r[1] = 0 \/ line[r[1]] \notin class)
                 /\ (r[2] = Len(line) \/ line[r[2] + 1] \notin class)
                 /\ r[1] <= pos /\ pos <= r[2]}
  IN  IF runs = {} THEN NoRange ELSE CHOOSE r \in runs : TRUE

\* document.getText(range); an undefined range yields the whole document.
getText(line, range) ==
  IF range = NoRange THEN line ELSE substring(line, range[1], range[2])

determineContext(line, pos) ==
  LET word_range   == getWordRangeAtPosition(line, pos, IdentChars)
      word         == getText(line, word_range)
      current_word == substring(word, lastIndexOf(word, Dot) + 1, Len(word))
      prefix       == substring(word, 0, lastIndexOf(word, Dot))
  IN  IF prefix # <<>>
        THEN [context |-> "module", prefix |-> trim(prefix), text |-> trim(current_word)]
      ELSE IF current_word = <<>>
        THEN [context |-> Thrown, prefix |-> <<>>, text |-> <<>>]
      ELSE IF current_word[1] \in Upper
        THEN [context |-> "module", prefix |-> trim(prefix), text |-> trim(current_word)]
      ELSE [context |-> "function", prefix |-> <<>>, text |-> trim(current_word)]

\* ------------------------------------------------------------- file system

wsRoot == <<"w">>
homeDir == <<"~">>

\* The manifests FastGlob can return, and what reading each one yields:
\* Unreadable, NotJson (JSON.parse throws) or the parsed document.
Unreadable == [unreadable |-> TRUE]
NotJson == [syntax_error |-> TRUE]
goodJson ==
  [elm_version |-> "0.19", source_directories |-> << <<"src">> >>,
   direct |-> << <<"p", "1.0">> >>]
noSrcJson == [elm_version |-> "0.19", direct |-> <<>>]
\* Two source directories and two dependencies; module M can only be in the
\* second of each.
twoSrcJson ==
  [elm_version |-> "0.19", source_directories |-> << <<"lib">>, <<"src">> >>,
   direct |-> << <<"q", "2.0">>, <<"p", "1.0">> >>]

mfRoot == Join(wsRoot, <<"elm.json">>)
mfSub  == Join(Join(wsRoot, <<"sub">>), <<"elm.json">>)

mfOld  == Join(Join(wsRoot, <<"old">>), <<"elm-package.json">>)

Manifests == {mfRoot, mfSub, mfOld}
ManifestContents == {Unreadable, NotJson, goodJson, noSrcJson}

\* Workspaces: each a sequence of <<manifest path, content>> in glob order,
\* no manifest twice.
Workspaces ==
  {w \in UNION {[1..n -> Manifests \X ManifestContents] : n \in 0..Cardinality(Manifests)} :
     \A i, j \in DOMAIN w : w[i][1] = w[j][1] => i = j}

srcDir == Join(wsRoot, <<"src">>)
pkgDir == Join(Join(Join(homeDir, <<".elm", Sep, "0.19", Sep, "package">>), <<"p">>), <<"1.0">>)

modMain == <<"Main">>
modM == <<"M">>
\* A module with no file in the source directory nor in the package.
modMx == <<"M", "x">>

fMain == Join(srcDir, <<"Main", ".elm">>)
fLoc  == Join(srcDir, <<"M", ".elm">>)
fDep  == Join(Join(pkgDir, <<"src">>), <<"M", ".elm">>)
\* A file in a sibling directory whose name starts with the source directory's.
fSib  == wsRoot \o <<Sep, "src", "-old", Sep, "M", ".elm">>
\* A file outside the workspace.
fOut  == <<"x", Sep, "M", ".elm">>

\* The files the module cache is asked for.
Files == {fMain, fLoc, fDep}
\* The paths a project is asked for.
CtxPaths == {fMain, fSib, fOut}

\* What each file can hold; NoFile makes Fs.readFile fail.
Texts(f) ==
  IF f = fMain THEN {"broken", "main", "main2"}
  ELSE IF f = fLoc THEN {NoFile, "broken", "locM"}
  ELSE {NoFile, "depM"}

\* parseElmModule: the AST of a source text, or ParseError when it throws.
parseElmModule(text) ==
  CASE text = "main" ->
         [name |-> modMain, imports |-> <<modM>>, function_declarations |-> <<"f">>,
          exposing |-> {"f"}, types |-> <<>>]
    [] text = "main2" ->
         [name |-> modMain, imports |-> <<>>, function_declarations |-> <<"f", "f2">>,
          exposing |-> {"f"}, types |-> <<>>]
    [] text = "main3" ->
         [name |-> modMain, imports |-> <<modMx, modM>>, function_declarations |-> <<"f">>,
          exposing |-> {"f"}, types |-> <<>>]
    [] text = "locM" ->
         [name |-> modM, imports |-> <<>>, function_declarations |-> <<"g", "h">>,
          exposing |-> {"g"}, types |-> << [name |-> "Color", constructors |-> <<"Red", "Green">>] >>]
    [] text = "depM" ->
         [name |-> modM, imports |-> <<>>, function_declarations |-> <<"k">>,
          exposing |-> {"k"}, types |-> <<>>]
    [] OTHER -> ParseError

\* ---------------------------------------------------------- manifest loader

\* One manifest of loadElmProjects' Promise.all: a project definition, or
\* Null where the callback returns null.
projectOfEntry(entry) ==
  LET project_entry == entry[1]
      json == entry[2]
  IN  IF json = Unreadable \/ json = NotJson THEN Null
      ELSE IF "source_directories" \notin DOMAIN json THEN Null
      ELSE
        LET elm_dependencies_dir ==
              Join(homeDir, <<".elm", Sep, json.elm_version, Sep, "package">>)
            dep(kv) ==
              [name |-> kv[1], version |-> kv[2],
               package_path |-> Join(Join(elm_dependencies_dir, <<kv[1]>>), <<kv[2]>>)]
            dir(d) == Join(Dirname(project_entry), d)
        IN  [path |-> project_entry,
             version |-> json.elm_version,
             source_dirs |-> SeqMap(dir, json.source_directories),
             dependencies |-> SeqMap(dep, json.direct)]

isProject(x) == x # Null

\* Mutant: no try/catch per manifest, one bad manifest empties the load.
loadElmProjectsAbort(entries) ==
  IF \E i \in DOMAIN entries : projectOfEntry(entries[i]) = Null THEN <<>>
  ELSE SeqMap(projectOfEntry, entries)

\* loadElmProjects once its glob and reads have answered.
loadElmProjects(entries) ==
  IF entries = <<>> THEN <<>>
  ELSE SeqFilter(isProject, SeqMap(projectOfEntry, entries))

\* --------------------------------------------------------- project resolver

\* Array.prototype.find: the first element satisfying P, or Null.
RECURSIVE find(_, _)
find(P(_), s) ==
  IF s = <<>> THEN Null ELSE IF P(Head(s)) THEN Head(s) ELSE find(P, Tail(s))

\* The synchronous tail of projectDefinitionForPath.
probable_project(projs, contextual_path) ==
  LET owns(x) == \E i \in 1..Len(x.source_dirs) :
                   startsWith(contextual_path, x.source_dirs[i])
  IN  find(owns, projs)

\* `${module_name.replace(/[.]/g, Path.sep)}.elm`
module_relative_path(module_name) ==
  [i \in 1..Len(module_name) |->
     IF module_name[i] = Dot THEN Sep ELSE module_name[i]] \o <<".elm">>

\* Mutant: the dependency packages are tried before the source directories.
moduleNameToPathsPackagesFirst(elm_project, module_name) ==
  LET loc(d) == Join(d, module_relative_path(module_name))
      pkg(d) == Join(Join(d.package_path, <<"src">>), module_relative_path(module_name))
  IN  SeqMap(pkg, elm_project.dependencies) \o SeqMap(loc, elm_project.source_dirs)

moduleNameToPaths(elm_project, module_name) ==
  LET loc(d) == Join(d, module_relative_path(module_name))
      pkg(d) == Join(Join(d.package_path, <<"src">>), module_relative_path(module_name))
  IN  SeqMap(loc, elm_project.source_dirs) \o SeqMap(pkg, elm_project.dependencies)

\* ------------------------------------------------------------------- state

VARIABLES
  disk,       \* file path -> the text Fs.readFile yields now (NoFile: it fails)
  workspace,  \* the manifests under the workspace roots, in glob order
  cache,      \* ElmProjectManager.cache: file path -> entry, or Null
  cacheText,  \* history: the text each cache entry was parsed from
  projects,   \* ElmProjectManager.projects
  loads,      \* history: how many times loadElmProjects was started
  edits,      \* history: how many times a file was rewritten
  tasks,      \* the requests, in the order they were issued
  doc,        \* the document and cursor the classifier is applied to
  ctx,        \* what determineContext returned for doc
  offered     \* the modules the module branch was given and what it returned

vars == <<disk, workspace, cache, cacheText, projects, loads, edits, tasks, doc, ctx, offered>>

Requests == 1..MaxRequests

\* A document line and a 0-based cursor column.
Doc(line, pos) == [line |-> line, pos |-> pos]
NoDoc == Doc(<<>>, 0)

\* The cursors complete() is asked at: after "a", "M", "M.", ".", "+" and " ".
CursorDocs ==
  { Doc(<<"a">>, 1), Doc(<<"M">>, 1), Doc(<<"M", Dot>>, 2),
    Doc(<<Dot>>, 1), Doc(<<"+">>, 1), Doc(<<" ">>, 0) }

\* One activation of moduleFromPath ("get"), projectDefinitionForPath
\* ("project") or moduleFromName ("byName"), and where it is suspended:
\*   glob       awaiting FastGlob in loadElmProjects
\*   manifests  awaiting the manifest reads of loadElmProjects
\*   reading    Fs.readFile issued for Head(paths)
\*   read       Fs.readFile has answered with text; its callback is pending
\*   ret        returned res
\* hit, failed and stale are history: whether the module came from the cache,
\* the <<path, text>> of every candidate moduleFromName got null for, and
\* whether the path was invalidated after text was read.
Call(kind, contextual_path, module_name) ==
  [kind |-> kind, pc |-> "new", ctx |-> contextual_path, name |-> module_name,
   paths |-> IF kind = "get" THEN <<contextual_path>> ELSE <<>>,
   text |-> None, res |-> Null, hit |-> FALSE, failed |-> <<>>, stale |-> FALSE]

\* A request: its handler (op), where the handler is (phase), the manager calls
\* it has made, and what it answered (res). pre and preText are history: the
\* cache entry its invalidatePath found, and the text that was parsed from.
IdleTask ==
  [op |-> "idle", phase |-> "idle", calls |-> <<>>, doc |-> NoDoc,
   path |-> <<>>, pre |-> Null, preText |-> None, res |-> Null]

diskAt(p) == IF p \in Files THEN disk[p] ELSE NoFile
cacheAt(c, p) == IF p \in Files THEN c[p] ELSE Null

\* ------------------------------------------------------------ module cache

\* moduleFromPath up to its first await: a cached entry is returned without
\* reading, otherwise Fs.readFile is issued.
moduleFromPathStart(c, call) ==
  LET module_path == Head(call.paths)
  IN  IF cacheAt(c, module_path) # Null
        THEN [call EXCEPT !.pc = "ret", !.res = cacheAt(c, module_path).parsed,
                          !.hit = TRUE]
        ELSE [call EXCEPT !.pc = "reading", !.text = None, !.hit = FALSE,
                          !.stale = FALSE]

\* What moduleFromPath returns once readFileOrNull has answered module_text.
moduleFromPathResult(module_text) ==
  IF module_text = NoFile THEN Null
  ELSE IF parseElmModule(module_text) = ParseError THEN Null
  ELSE parseElmModule(module_text)

\* Mutant: the catch block caches the failure, as an entry with no module.
moduleFromPathStoreFailure(c, module_path, module_text) ==
  IF module_text = NoFile THEN c
  ELSE [c EXCEPT ![module_path] =
          [module_path |-> module_path,
           module_name |-> <<>>,
           parsed |-> moduleFromPathResult(module_text)]]

\* Mutant: a failed read or parse drops the entry of the path.
moduleFromPathStoreEvict(c, module_path, module_text) ==
  [c EXCEPT ![module_path] =
     IF moduleFromPathResult(module_text) = Null THEN Null
     ELSE [module_path |-> module_path,
           module_name |-> parseElmModule(module_text).name,
           parsed |-> parseElmModule(module_text)]]

\* Mutant: the first parse to finish wins, a later one does not replace it.
moduleFromPathStoreIfAbsent(c, module_path, module_text) ==
  IF moduleFromPathResult(module_text) = Null \/ c[module_path] # Null THEN c
  ELSE [c EXCEPT ![module_path] =
          [module_path |-> module_path,
           module_name |-> parseElmModule(module_text).name,
           parsed |-> parseElmModule(module_text)]]

\* The cache after moduleFromPath's try block.
moduleFromPathStore(c, module_path, module_text) ==
  IF moduleFromPathResult(module_text) = Null THEN c
  ELSE [c EXCEPT ![module_path] =
          [module_path |-> module_path,
           module_name |-> parseElmModule(module_text).name,
           parsed |-> parseElmModule(module_text)]]

\* Mutant: invalidatePath empties the cache (this.cache = {}).
invalidatePathAll(this, module_path) ==
  [this EXCEPT !.cache = [p \in DOMAIN this.cache |-> Null]]

\* Mutant: invalidatePath deletes nothing.
invalidatePathNothing(this, module_path) == this

\* invalidatePath on the manager this = [projects, cache]; returns this.
invalidatePath(this, module_path) ==
  [this EXCEPT !.cache = [p \in DOMAIN this.cache |->
                            IF p = module_path THEN Null ELSE this.cache[p]]]

Manager == [projects |-> projects, cache |-> cache]

\* --------------------------------------------------------------- the calls

\* moduleFromName / projectDefinitionForPath once this.projects is known.
afterProject(call, projs, c) ==
  LET elm_project == probable_project(projs, call.ctx)
  IN  IF call.kind = "project" THEN [call EXCEPT !.pc = "ret", !.res = elm_project]
      ELSE IF elm_project = Null THEN [call EXCEPT !.pc = "ret", !.res = Null]
      ELSE LET possible_paths == moduleNameToPaths(elm_project, call.name)
           IN  IF possible_paths = <<>> THEN [call EXCEPT !.pc = "ret", !.res = Null]
               ELSE moduleFromPathStart(c, [call EXCEPT !.paths = possible_paths])

\* Whether starting the call starts loadElmProjects.
startsLoad(call, projs) == call.kind # "get" /\ projs = <<>>

\* A call from its invocation to its first suspension.
startCall(call, projs, c) ==
  IF call.kind = "get" THEN moduleFromPathStart(c, call)
  ELSE IF projs = <<>> THEN [call EXCEPT !.pc = "glob"]
  ELSE afterProject(call, projs, c)

\* Mutant: moduleFromPath stores the module but does not return it.
afterReadNoReturn(call, c) ==
  IF call.kind = "get" THEN [call EXCEPT !.pc = "ret", !.res = Null]
  ELSE IF Len(call.paths) = 1
    THEN [call EXCEPT !.pc = "ret", !.res = Null,
                      !.failed = @ \o << <<Head(call.paths), call.text>> >>]
  ELSE moduleFromPathStart(c, [call EXCEPT !.paths = Tail(@),
                          !.failed = @ \o << <<Head(call.paths), call.text>> >>])

\* Mutant: moduleFromName's loop does not stop at the first module, it goes
\* on to the later candidates and answers with the last one's result.
afterReadTriesAll(call, c) ==
  IF call.kind = "get" \/ Len(call.paths) = 1
    THEN [call EXCEPT !.pc = "ret", !.res = moduleFromPathResult(call.text)]
  ELSE moduleFromPathStart(c, [call EXCEPT !.paths = Tail(@)])

\* The call after the callback of its read: moduleFromPath returns, and
\* moduleFromName's loop takes the module or goes on to the next path.
afterRead(call, c) ==
  LET module == moduleFromPathResult(call.text)
  IN  IF call.kind = "get" \/ module # Null
        THEN [call EXCEPT !.pc = "ret", !.res = module]
      ELSE IF Len(call.paths) = 1
        THEN [call EXCEPT !.pc = "ret", !.res = Null,
                          !.failed = @ \o << <<Head(call.paths), call.text>> >>]
      ELSE moduleFromPathStart(c, [call EXCEPT !.paths = Tail(@),
                              !.failed = @ \o << <<Head(call.paths), call.text>> >>])

\* -------------------------------------------------------------- completion

\* A missing element of a zipped pair.
Undefined == <<"undefined">>

\* String.prototype.split(/[.]/g): the segments between the dots.
RECURSIVE split(_)
split(s) ==
  IF lastIndexOf(s, Dot) = -1 THEN <<s>>
  ELSE split(substring(s, 0, lastIndexOf(s, Dot)))
         \o <<substring(s, lastIndexOf(s, Dot) + 1, Len(s))>>

\* Array.prototype.join('.'): undefined elements are written as "".
RECURSIVE join(_)
join(parts) ==
  IF parts = <<>> THEN <<>>
  ELSE LET h == IF Head(parts) = Undefined THEN <<>> ELSE Head(parts)
       IN  IF Len(parts) = 1 THEN h ELSE h \o <<Dot>> \o join(Tail(parts))

\* _.zipWith(a, b) with no iteratee: pairs, the shorter side padded.
zipWith(a, b) ==
  LET n == IF Len(a) < Len(b) THEN Len(b) ELSE Len(a)
      at(x, i) == IF i <= Len(x) THEN x[i] ELSE Undefined
  IN  [i \in 1..n |-> <<at(a, i), at(b, i)>>]

\* Mutant: only the last of the trailing segments that differ is kept.
takeRightOne(pairs) ==
  IF pairs = <<>> THEN <<>>
  ELSE LET last == pairs[Len(pairs)]
       IN  IF last[1] # last[2] THEN <<last[1]>> ELSE <<>>

\* _.takeRightWhile(pairs, ([a, b]) => a !== b).map(([a]) => a)
RECURSIVE takeRightWhile(_)
takeRightWhile(pairs) ==
  IF pairs = <<>> THEN <<>>
  ELSE LET last == pairs[Len(pairs)]
       IN  IF last[1] # last[2]
             THEN takeRightWhile(SubSeq(pairs, 1, Len(pairs) - 1)) \o <<last[1]>>
             ELSE <<>>

\* exposedOnlyView of elm-module-parser: the module restricted to what its
\* exposing list names.
exposedOnlyView(m) ==
  LET exposed(f) == f \in m.exposing
  IN  [name |-> m.name,
       functions |-> SeqFilter(exposed, m.function_declarations),
       custom_types |-> m.types]

ElmCompletionItem(label, kind, contextual_path, module, name) ==
  [label |-> label, kind |-> kind, contextual_path |-> contextual_path,
   module |-> module, name |-> name]

\* Mutant: one import that does not resolve empties import_views.
compactAllOrNothing(results) ==
  LET resolved(m) == m # Null
  IN  IF SeqFilter(resolved, results) = results THEN results ELSE <<>>

\* _.compact of the moduleFromName results: the null ones are dropped.
compact(results) ==
  LET resolved(m) == m # Null
  IN  SeqFilter(resolved, results)

RECURSIVE flatten(_)
flatten(ss) == IF ss = <<>> THEN <<>> ELSE Head(ss) \o flatten(Tail(ss))

\* The imports whose modules complete() resolves.
possible_imports(elm_module, dc) ==
  LET keep(i) == startsWith(i, IF dc.prefix = <<>> THEN dc.text ELSE dc.prefix)
  IN  SeqFilter(keep, elm_module.imports)

\* Mutant: the module branch also offers the current module's declarations.
assembleWithOwn(fileName, elm_module, dc, modules) ==
  LET own(d) == ElmCompletionItem(<<d>>, "Function", fileName, elm_module.name, <<d>>)
      fns(i) ==
        LET item(f) == ElmCompletionItem(<<f>>, "Function", fileName, i.name, <<f>>)
        IN  SeqMap(item, exposedOnlyView(i).functions)
  IN  SeqMap(own, elm_module.function_declarations) \o flatten(SeqMap(fns, modules))

\* provideCompletionItems from import_views on: modules are the non-null
\* results of the moduleFromName calls, in import order.
assemble(fileName, elm_module, dc, modules) ==
  LET own(d) == ElmCompletionItem(<<d>>, "Function", fileName, elm_module.name, <<d>>)
      fns(i) ==
        LET item(f) == ElmCompletionItem(<<f>>, "Function", fileName, i.name, <<f>>)
        IN  SeqMap(item, exposedOnlyView(i).functions)
      ctors(i) ==
        LET ofType(t) ==
              LET item(c) == ElmCompletionItem(<<c>>, "Class", fileName, i.name, <<c>>)
              IN  SeqMap(item, t.constructors)
        IN  flatten(SeqMap(ofType, exposedOnlyView(i).custom_types))
      byModule(i) ==
        LET completion_parts ==
              takeRightWhile(zipWith(split(exposedOnlyView(i).name), split(dc.prefix)))
        IN  IF completion_parts = <<>> THEN fns(i)
            ELSE << ElmCompletionItem(join(completion_parts), "Class", fileName,
                                      i.name, exposedOnlyView(i).name) >>
  IN  IF dc.context = "function"
        THEN SeqMap(own, elm_module.function_declarations)
               \o flatten(SeqMap(fns, modules)) \o flatten(SeqMap(ctors, modules))
      ELSE IF dc.context = "module" THEN flatten(SeqMap(byModule, modules))
      ELSE <<>>

\* What a finished complete() hands to the editor.
Items(items) == [items |-> items]
Rejected == [thrown |-> Thrown]


\* ----------------------------------------------------------------- actions

TextsOnDisk == UNION {Texts(f) : f \in Files}

\* After construction: nothing cached, no project loaded, no request issued.
InitManager ==
  /\ cache = [f \in Files |-> Null]
  /\ cacheText = [f \in Files |-> None]
  /\ projects = <<>>
  /\ loads = 0
  /\ edits = 0
  /\ tasks = [t \in Requests |-> IdleTask]

\* Request t is the next one to be issued.
Idle(t) == tasks[t].op = "idle" /\ \A u \in Requests : u < t => tasks[u].op # "idle"

\* How many of the calls start loadElmProjects.
RECURSIVE loadsStarted(_, _)
loadsStarted(calls, projs) ==
  IF calls = <<>> THEN 0
  ELSE (IF startsLoad(Head(calls), projs) THEN 1 ELSE 0) + loadsStarted(Tail(calls), projs)

\* A request for one manager method: get(p), projectForPath(p), moduleByName(p, m).
StartCall(t, kind, path, name) ==
  LET call == Call(kind, path, name)
  IN  /\ Idle(t)
      /\ tasks' = [tasks EXCEPT ![t] =
                     [IdleTask EXCEPT !.op = kind, !.phase = "call", !.path = path,
                                      !.calls = <<startCall(call, projects, cache)>>]]
      /\ loads' = loads + loadsStarted(<<call>>, projects)
      /\ UNCHANGED <<disk, workspace, cache, cacheText, projects, edits, doc, ctx, offered>>

StartGet(t, path) == StartCall(t, "get", path, <<>>)
StartProject(t, path) == StartCall(t, "project", path, <<>>)
StartByName(t, path, name) == StartCall(t, "byName", path, name)

\* Fs.readFile answers: the text is what the file holds at this moment.
ReadFile(t, i) ==
  /\ i \in DOMAIN tasks[t].calls
  /\ tasks[t].calls[i].pc = "reading"
  /\ tasks' = [tasks EXCEPT ![t].calls[i].pc = "read",
                            ![t].calls[i].text = diskAt(Head(tasks[t].calls[i].paths))]
  /\ UNCHANGED <<disk, workspace, cache, cacheText, projects, loads, edits, doc, ctx, offered>>

\* moduleFromPath resumes after its read: parse, store, return.
GetFinish(t, i) ==
  /\ i \in DOMAIN tasks[t].calls
  /\ tasks[t].calls[i].pc = "read"
  /\ LET call == tasks[t].calls[i]
         module_path == Head(call.paths)
         stored == moduleFromPathStore(cache, module_path, call.text)
     IN  /\ cache' = stored
         /\ cacheText' = [f \in Files |-> IF stored[f] = cache[f] THEN cacheText[f]
                                          ELSE IF stored[f] = Null THEN None
                                          ELSE call.text]
         /\ tasks' = [tasks EXCEPT ![t].calls[i] = afterRead(call, stored)]
  /\ UNCHANGED <<disk, workspace, projects, loads, edits, doc, ctx, offered>>

\* FastGlob answers in loadElmProjects; with no manifest it returns [] and
\* projectDefinitionForPath resumes at once.
LoadGlob(t, i) ==
  /\ i \in DOMAIN tasks[t].calls
  /\ tasks[t].calls[i].pc = "glob"
  /\ IF workspace = <<>>
       THEN /\ projects' = loadElmProjects(workspace)
            /\ tasks' = [tasks EXCEPT ![t].calls[i] =
                           afterProject(tasks[t].calls[i], projects', cache)]
       ELSE /\ projects' = projects
            /\ tasks' = [tasks EXCEPT ![t].calls[i].pc = "manifests"]
  /\ UNCHANGED <<disk, workspace, cache, cacheText, loads, edits, doc, ctx, offered>>

\* The manifest reads answer: this.projects = await this.loadElmProjects().
LoadFinish(t, i) ==
  /\ i \in DOMAIN tasks[t].calls
  /\ tasks[t].calls[i].pc = "manifests"
  /\ projects' = loadElmProjects(workspace)
  /\ tasks' = [tasks EXCEPT ![t].calls[i] =
                 afterProject(tasks[t].calls[i], projects', cache)]
  /\ UNCHANGED <<disk, workspace, cache, cacheText, loads, edits, doc, ctx, offered>>

\* History: the reads of module_path that have answered and whose callback is
\* pending are marked as made before an invalidation of the path.
MarkStale(ts, module_path) ==
  [u \in DOMAIN ts |->
     [ts[u] EXCEPT !.calls =
        [i \in DOMAIN ts[u].calls |->
           IF ts[u].calls[i].pc = "read" /\ Head(ts[u].calls[i].paths) = module_path
             THEN [ts[u].calls[i] EXCEPT !.stale = TRUE]
             ELSE ts[u].calls[i]]]]

\* onDidSaveTextDocument: the handler invalidates the saved file's entry.
Save(t, f) ==
  /\ Idle(t)
  /\ cache' = invalidatePath(Manager, f).cache
  /\ projects' = invalidatePath(Manager, f).projects
  /\ cacheText' = [p \in Files |-> IF cache'[p] = Null THEN None ELSE cacheText[p]]
  /\ tasks' = [MarkStale(tasks, f) EXCEPT ![t] =
                 [IdleTask EXCEPT !.op = "save", !.phase = "done", !.path = f,
                                  !.pre = cache[f], !.preText = cacheText[f]]]
  /\ UNCHANGED <<disk, workspace, loads, edits, doc, ctx, offered>>

\* The file is rewritten on disk (by the editor or anything else).
Edit(f, text) ==
  /\ edits < MaxEdits
  /\ text # disk[f]
  /\ disk' = [disk EXCEPT ![f] = text]
  /\ edits' = edits + 1
  /\ UNCHANGED <<workspace, cache, cacheText, projects, loads, tasks, doc, ctx, offered>>

\* The manifest is rewritten on disk (by the editor or anything else).
EditManifest(json) ==
  /\ edits < MaxEdits
  /\ workspace # <<>>
  /\ json # workspace[1][2]
  /\ workspace' = [workspace EXCEPT ![1][2] = json]
  /\ edits' = edits + 1
  /\ UNCHANGED <<disk, cache, cacheText, projects, loads, tasks, doc, ctx, offered>>

\* provideCompletionItems up to its first await.
StartComplete(t, f, d) ==
  /\ Idle(t)
  /\ IF getWordRangeAtPosition(d.line, d.pos, WordChars) = NoRange
       THEN /\ tasks' = [tasks EXCEPT ![t] =
                           [IdleTask EXCEPT !.op = "complete", !.phase = "done",
                                            !.path = f, !.doc = d, !.res = Items(<<>>)]]
            /\ UNCHANGED <<cache, cacheText, projects>>
       ELSE LET this == invalidatePath(Manager, f)
            IN  /\ cache' = this.cache
                /\ projects' = this.projects
                /\ cacheText' = [p \in Files |->
                                   IF cache'[p] = Null THEN None ELSE cacheText[p]]
                /\ tasks' = [MarkStale(tasks, f) EXCEPT ![t] =
                      [IdleTask EXCEPT
                         !.op = "complete", !.phase = "module", !.path = f, !.doc = d,
                         !.pre = cache[f], !.preText = cacheText[f],
                         !.calls = <<moduleFromPathStart(this.cache, Call("get", f, <<>>))>>]]
  /\ UNCHANGED <<disk, workspace, loads, edits, doc, ctx, offered>>

\* provideCompletionItems resumes with elm_module: classify the cursor and
\* start moduleFromName for every import kept.
CompleteContinue(t) ==
  /\ tasks[t].op = "complete" /\ tasks[t].phase = "module"
  /\ tasks[t].calls[1].pc = "ret"
  /\ LET elm_module == tasks[t].calls[1].res
         fileName == tasks[t].path
         dc == determineContext(tasks[t].doc.line, tasks[t].doc.pos)
         byName(i) == Call("byName", fileName, i)
         started(call) == startCall(call, projects, cache)
         imports == IF elm_module = Null \/ dc.context = Thrown THEN <<>>
                    ELSE SeqMap(byName, possible_imports(elm_module, dc))
     IN  /\ loads' = loads + loadsStarted(imports, projects)
         /\ tasks' = [tasks EXCEPT ![t] =
              IF elm_module = Null THEN [@ EXCEPT !.phase = "done", !.res = Items(<<>>)]
              ELSE IF dc.context = Thrown THEN [@ EXCEPT !.phase = "done", !.res = Rejected]
              ELSE IF imports = <<>>
                THEN [@ EXCEPT !.phase = "done",
                               !.res = Items(assemble(fileName, elm_module, dc, <<>>))]
              ELSE [@ EXCEPT !.phase = "imports",
                             !.calls = @ \o SeqMap(started, imports)]]
  /\ UNCHANGED <<disk, workspace, cache, cacheText, projects, edits, doc, ctx, offered>>

\* Promise.all of the moduleFromName calls has answered: build the candidates.
CompleteAssemble(t) ==
  /\ tasks[t].op = "complete" /\ tasks[t].phase = "imports"
  /\ \A i \in DOMAIN tasks[t].calls : tasks[t].calls[i].pc = "ret"
  /\ LET elm_module == tasks[t].calls[1].res
         dc == determineContext(tasks[t].doc.line, tasks[t].doc.pos)
         result(call) == call.res
         modules == compact(SeqMap(result, Tail(tasks[t].calls)))
     IN  tasks' = [tasks EXCEPT ![t].phase = "done",
                     ![t].res = Items(assemble(tasks[t].path, elm_module, dc, modules))]
  /\ UNCHANGED <<disk, workspace, cache, cacheText, projects, loads, edits, doc, ctx, offered>>

\* Whether request t has answered its caller.
Finished(t) ==
  \/ tasks[t].phase = "done"
  \/ tasks[t].phase = "call" /\ tasks[t].calls[1].pc = "ret"

\* ----------------------------------------------- the manager under requests

\* The most calls one request has in flight: the current module, two imports.
Calls == 1..3

\* The cursors complete() is asked at here: module context, no word.
RaceDocs == { Doc(<<"M", Dot>>, 2), Doc(<<" ">>, 0) }

Init ==
  /\ disk = [f \in Files |-> IF f = fMain THEN "main" ELSE IF f = fLoc THEN NoFile ELSE "depM"]
  /\ workspace = << <<mfRoot, goodJson>> >>
  /\ InitManager
  /\ doc = NoDoc
  /\ ctx = Null
  /\ offered = Null

Next ==
  \/ \E t \in Requests, f \in {fMain, fLoc} : StartGet(t, f)
  \/ \E t \in Requests : StartProject(t, fMain)
  \/ \E t \in Requests : StartByName(t, fMain, modM)
  \/ \E t \in Requests, d \in RaceDocs : StartComplete(t, fMain, d)
  \/ \E t \in Requests, f \in {fMain, fLoc} : Save(t, f)
  \/ \E t \in Requests, i \in Calls : ReadFile(t, i)
  \/ \E t \in Requests, i \in Calls : GetFinish(t, i)
  \/ \E t \in Requests, i \in Calls : LoadGlob(t, i)
  \/ \E t \in Requests, i \in Calls : LoadFinish(t, i)
  \/ \E t \in Requests : CompleteContinue(t)
  \/ \E t \in Requests : CompleteAssemble(t)
  \/ \E text \in Texts(fMain) : Edit(fMain, text)

Spec == Init /\ [][Next]_vars

\* ------------------------------------------------------ the project resolver

\* A workspace with or without a manifest, any state of the module M on disk; requests for a project
\* and for the module M from inside and outside the source directory.
InitResolve ==
  /\ disk \in {d \in [Files -> TextsOnDisk] :
                 d[fMain] = "main" /\ d[fLoc] \in Texts(fLoc) /\ d[fDep] \in Texts(fDep)}
  /\ workspace \in {<<>>, << <<mfRoot, goodJson>> >>}
  /\ InitManager
  /\ doc = NoDoc
  /\ ctx = Null
  /\ offered = Null

NextResolve ==
  \/ \E t \in Requests, p \in CtxPaths : StartProject(t, p)
  \/ \E t \in Requests, p \in CtxPaths : StartByName(t, p, modM)
  \/ \E t \in Requests : StartGet(t, fLoc)
  \/ \E t \in Requests : ReadFile(t, 1)
  \/ \E t \in Requests : GetFinish(t, 1)
  \/ \E t \in Requests : LoadGlob(t, 1)
  \/ \E t \in Requests : LoadFinish(t, 1)
  \/ \E text \in Texts(fLoc) : Edit(fLoc, text)

SpecResolve == InitResolve /\ [][NextResolve]_vars

\* --------------------------------------------------------------- completion

\* complete() on the current module at every cursor of CursorDocs, whatever the
\* current module and the module it imports hold on disk.
InitComplete ==
  /\ disk \in {d \in [Files -> TextsOnDisk] : \A f \in Files : d[f] \in Texts(f)}
  /\ workspace = << <<mfRoot, goodJson>> >>
  /\ InitManager
  /\ doc = NoDoc
  /\ ctx = Null
  /\ offered = Null

NextComplete ==
  \/ \E t \in Requests, d \in CursorDocs : StartComplete(t, fMain, d)
  \/ \E t \in Requests, i \in Calls : ReadFile(t, i)
  \/ \E t \in Requests, i \in Calls : GetFinish(t, i)
  \/ \E t \in Requests, i \in Calls : LoadGlob(t, i)
  \/ \E t \in Requests, i \in Calls : LoadFinish(t, i)
  \/ \E t \in Requests : CompleteContinue(t)
  \/ \E t \in Requests : CompleteAssemble(t)

SpecComplete == InitComplete /\ [][NextComplete]_vars

\* ------------------------------------------------------ the candidate paths

\* moduleByName for module M in a project with two source directories and two
\* dependencies, whatever the files of M hold, with gets that may have put
\* them in the cache before.
InitCandidates ==
  /\ disk \in {d \in [Files -> TextsOnDisk] :
                 d[fMain] = "main" /\ d[fLoc] \in Texts(fLoc) /\ d[fDep] \in Texts(fDep)}
  /\ workspace = << <<mfRoot, twoSrcJson>> >>
  /\ InitManager
  /\ doc = NoDoc
  /\ ctx = Null
  /\ offered = Null

NextCandidates ==
  \/ \E t \in Requests : StartByName(t, fMain, modM)
  \/ \E t \in Requests, f \in {fLoc, fDep} : StartGet(t, f)
  \/ \E t \in Requests : ReadFile(t, 1)
  \/ \E t \in Requests : GetFinish(t, 1)
  \/ \E t \in Requests : LoadGlob(t, 1)
  \/ \E t \in Requests : LoadFinish(t, 1)

SpecCandidates == InitCandidates /\ [][NextCandidates]_vars

\* ------------------------------------------------------ the manifest loader

\* projectForPath on every workspace of Workspaces.
InitLoad ==
  /\ disk = [f \in Files |-> NoFile]
  /\ workspace \in Workspaces
  /\ InitManager
  /\ doc = NoDoc
  /\ ctx = Null
  /\ offered = Null

NextLoad ==
  \/ \E t \in Requests, p \in CtxPaths : StartProject(t, p)
  \/ \E t \in Requests : LoadGlob(t, 1)
  \/ \E t \in Requests : LoadFinish(t, 1)

SpecLoad == InitLoad /\ [][NextLoad]_vars

\* ---------------------------------------------------- the project list

\* projectForPath calls while the manifest of the workspace can be rewritten.
InitReload ==
  /\ disk = [f \in Files |-> NoFile]
  /\ workspace = << <<mfRoot, goodJson>> >>
  /\ InitManager
  /\ doc = NoDoc
  /\ ctx = Null
  /\ offered = Null

NextReload ==
  \/ \E t \in Requests, p \in CtxPaths : StartProject(t, p)
  \/ \E t \in Requests : LoadGlob(t, 1)
  \/ \E t \in Requests : LoadFinish(t, 1)
  \/ \E json \in ManifestContents : EditManifest(json)

SpecReload == InitReload /\ [][NextReload]_vars

\* ------------------------------------------------- completion with imports

\* One complete() on a current module with two imports, M and a module that
\* has no file anywhere, at every cursor of CursorDocs and whatever module M
\* holds on disk; the moduleFromName calls of the request run concurrently.
ImportDocs == CursorDocs \cup {Doc(<<"R">>, 1), Doc(<<"M", "x">>, 2)}

InitImports ==
  /\ disk \in {[f \in Files |-> IF f = fMain THEN "main3" ELSE IF f = fLoc THEN a ELSE b] :
                 a \in Texts(fLoc), b \in Texts(fDep)}
  /\ workspace = << <<mfRoot, goodJson>> >>
  /\ InitManager
  /\ doc = NoDoc
  /\ ctx = Null
  /\ offered = Null

NextImports ==
  \/ \E d \in ImportDocs : StartComplete(1, fMain, d)
  \/ \E i \in Calls : ReadFile(1, i)
  \/ \E i \in Calls : GetFinish(1, i)
  \/ \E i \in Calls : LoadGlob(1, i)
  \/ \E i \in Calls : LoadFinish(1, i)
  \/ CompleteContinue(1)
  \/ CompleteAssemble(1)

SpecImports == InitImports /\ [][NextImports]_vars

\* -------------------------------------------------- the context classifier

\* Every one-line document of at most MaxLen characters, at every cursor.
Lines == UNION {[1..n -> Alphabet] : n \in 0..MaxLen}
CtxDocs == {d \in [line : Lines, pos : 0..MaxLen] : d.pos <= Len(d.line)}

InitCtx ==
  /\ disk = [f \in Files |-> NoFile]
  /\ workspace = <<>>
  /\ InitManager
  /\ doc \in CtxDocs
  /\ ctx = Null
  /\ offered = Null

\* determineContext(document, position) is called.
Classify ==
  /\ ctx = Null
  /\ ctx' = determineContext(doc.line, doc.pos)
  /\ UNCHANGED <<disk, workspace, cache, cacheText, projects, loads, edits, tasks, doc, offered>>

NextCtx == Classify

SpecCtx == InitCtx /\ [][NextCtx]_vars

\* --------------------------------------------------------- the module branch

\* Dotted module names of at most MaxLen characters over two segment letters.
ModuleNames ==
  {n \in UNION {[1..k -> {"M", "N", Dot}] : k \in 1..MaxLen} :
     /\ n[1] # Dot /\ n[Len(n)] # Dot
     /\ \A i \in 1..(Len(n) - 1) : ~(n[i] = Dot /\ n[i + 1] = Dot)}

\* The resolved module of an import: it declares g and h and exposes g.
ModuleNamed(n) ==
  [name |-> n, imports |-> <<>>, function_declarations |-> <<"g", "h">>,
   exposing |-> {"g"}, types |-> <<>>]

\* The documents typed so far, the cursor at the end of the line.
ModuleDocs ==
  {Doc(l, Len(l)) : l \in UNION {[1..k -> {"M", "N", Dot}] : k \in 1..MaxLen}}

\* The import lists: at most two imports, no module twice.
ImportLists ==
  {<<>>} \cup {<<n>> : n \in ModuleNames}
         \cup {p \in ModuleNames \X ModuleNames : p[1] # p[2]}

InitBranch ==
  /\ disk = [f \in Files |-> NoFile]
  /\ workspace = <<>>
  /\ InitManager
  /\ doc \in ModuleDocs
  /\ ctx = Null
  /\ offered = Null

\* provideCompletionItems from the classification on, for a current module
\* with the given imports, each one resolved to the module of its name.
ModuleBranch ==
  /\ offered = Null
  /\ determineContext(doc.line, doc.pos).context = "module"
  /\ \E imports \in ImportLists :
       LET dc == determineContext(doc.line, doc.pos)
           elm_module == [ModuleNamed(modMain) EXCEPT !.imports = imports]
           modules == SeqMap(ModuleNamed, possible_imports(elm_module, dc))
       IN  offered' = [modules |-> modules,
                       items |-> assemble(fMain, elm_module, dc, modules)]
  /\ ctx' = determineContext(doc.line, doc.pos)
  /\ UNCHANGED <<disk, workspace, cache, cacheText, projects, loads, edits, tasks, doc>>

NextBranch == ModuleBranch

SpecBranch == InitBranch /\ [][NextBranch]_vars

\* ------------------------------------------------------------------ claims

\* Fs.readFile failed, or parseElmModule throws on the text.
Unparseable(text) == text = NoFile \/ parseElmModule(text) = ParseError

\* The calls of request t.
CallsOf(t) == DOMAIN tasks[t].calls

\* Request t was issued in this step.
Issued(t) == tasks[t].op = "idle" /\ tasks'[t].op # "idle"

\* Call i of request t resumed in this step from the callback of its read.
Resumed(t, i) ==
  /\ i \in CallsOf(t)
  /\ tasks[t].calls[i].pc = "read"
  /\ tasks'[t].calls[i].pc # "read"

\* C1: a get of an uncached path whose file cannot be read or does not parse
\* returns null and leaves the whole cache as it was (no entry for the path,
\* no other entry touched); and a get of a path with no entry always reads
\* the file, so the failed path is read and parsed again by the next get.
C1_FailedGetLeavesCache ==
  [][ /\ \A t \in Requests : \A i \in Calls :
           (Resumed(t, i) /\ Unparseable(tasks[t].calls[i].text))
             => /\ cache' = cache
                /\ tasks[t].calls[i].kind = "get"
                     => /\ tasks'[t].calls[i].pc = "ret"
                        /\ tasks'[t].calls[i].res = Null
      /\ \A t \in Requests :
           (Issued(t) /\ tasks'[t].op = "get" /\ cache[tasks'[t].path] = Null)
             => /\ tasks'[t].calls[1].pc = "reading"
                /\ cache' = cache ]_vars

\* Two gets have failed, one on an unreadable file and one on a text that does
\* not parse, and neither path has an entry.
C1_Witness ==
  \E t, u \in Requests :
    /\ tasks[t].op = "get" /\ tasks[u].op = "get"
    /\ tasks[t].calls[1].pc = "ret" /\ tasks[u].calls[1].pc = "ret"
    /\ tasks[t].calls[1].text = NoFile /\ tasks[u].calls[1].text = "broken"
    /\ tasks[t].calls[1].res = Null /\ tasks[u].calls[1].res = Null
    /\ cache[tasks[t].path] = Null /\ cache[tasks[u].path] = Null

\* C2: invalidate(path) removes the entry of path if there is one, changes
\* nothing if there is none, leaves every other entry and the project list
\* alone, and returns the manager itself (the manager after the call is the
\* value returned).
C2_InvalidateFrame ==
  [][ \A t \in Requests :
        (Issued(t) /\ tasks'[t].op = "save")
          => /\ cache'[tasks'[t].path] = Null
             /\ \A q \in Files \ {tasks'[t].path} : cache'[q] = cache[q]
             /\ cache[tasks'[t].path] = Null => cache' = cache
             /\ projects' = projects
             /\ invalidatePath(Manager, tasks'[t].path)
                  = [projects |-> projects', cache |-> cache'] ]_vars

\* A save has removed an entry while another path kept its entry and the
\* projects stayed loaded.
C2_Witness ==
  \E t \in Requests :
    /\ tasks[t].op = "save"
    /\ tasks[t].pre # Null
    /\ cache[tasks[t].path] = Null
    /\ \E q \in Files \ {tasks[t].path} : cache[q] # Null
    /\ projects # <<>>

\* C3: an entry is removed only by invalidate of its own path (a save of it or
\* complete() on it); and while it is present get returns the cached AST
\* without reading the file, whatever the file holds now.
C3_EvictedOnlyByInvalidate ==
  [][ /\ \A p \in Files :
           (cache[p] # Null /\ cache'[p] = Null)
             => \E t \in Requests :
                  /\ Issued(t)
                  /\ tasks'[t].path = p
                  /\ \/ tasks'[t].op = "save"
                     \/ tasks'[t].op = "complete" /\ tasks'[t].phase = "module"
      /\ \A t \in Requests :
           (Issued(t) /\ tasks'[t].op = "get" /\ cache[tasks'[t].path] # Null)
             => /\ tasks'[t].calls[1].pc = "ret"
                /\ tasks'[t].calls[1].res = cache[tasks'[t].path].parsed
                /\ tasks'[t].calls[1].text = None
                /\ cache' = cache ]_vars

\* A get has returned the cached AST of a file whose text on disk no longer
\* parses to it, without reading the file.
C3_Witness ==
  \E t \in Requests :
    /\ tasks[t].op = "get"
    /\ tasks[t].calls[1].pc = "ret" /\ tasks[t].calls[1].hit
    /\ tasks[t].calls[1].text = None
    /\ cache[tasks[t].path] # Null
    /\ cacheText[tasks[t].path] # disk[tasks[t].path]
    /\ tasks[t].calls[1].res # moduleFromPathResult(disk[tasks[t].path])

\* C4: loadElmProjects is started at most once.
C4_LoaderStartedAtMostOnce == loads <= 1

\* complete() on request t is past its word check.
Completing(t) == tasks[t].op = "complete" /\ tasks[t].calls # <<>>

\* C7: invalidate(p) followed at once by get(p) (as complete() does), when p
\* had an entry and the text read is the text that entry was parsed from,
\* returns the AST that was cached and puts the same entry back; no other
\* entry is touched by the get.
C7_ReparseReproduces ==
  [][ \A t \in Requests :
        (/\ Completing(t) /\ tasks[t].phase = "module"
         /\ Resumed(t, 1)
         /\ tasks[t].pre # Null
         /\ tasks[t].calls[1].text = tasks[t].preText)
          => /\ tasks'[t].calls[1].pc = "ret"
             /\ tasks'[t].calls[1].res = tasks[t].pre.parsed
             /\ cache'[tasks[t].path] = tasks[t].pre
             /\ \A q \in Files \ {tasks[t].path} : cache'[q] = cache[q] ]_vars

\* An entry was invalidated and re-read from the same text: the AST returned
\* and the entry in the cache are the ones from before.
C7_Witness ==
  \E t \in Requests :
    /\ Completing(t)
    /\ tasks[t].pre # Null
    /\ tasks[t].calls[1].pc = "ret"
    /\ tasks[t].calls[1].text = tasks[t].preText
    /\ tasks[t].calls[1].res = tasks[t].pre.parsed
    /\ cache[tasks[t].path] = tasks[t].pre

\* C8: complete() on f never takes f's module from the cache: its get always
\* misses (the invalidation and the cache lookup are one step), so the module
\* is what the text read after the request started parses to; and when that
\* read or parse fails the request answers with no candidates.
C8_CompleteReadsFromDisk ==
  \A t \in Requests :
    Completing(t)
      => /\ ~tasks[t].calls[1].hit
         /\ tasks[t].calls[1].pc = "ret"
              => /\ tasks[t].calls[1].text # None
                 /\ tasks[t].calls[1].res = moduleFromPathResult(tasks[t].calls[1].text)
         /\ (tasks[t].phase = "done" /\ Unparseable(tasks[t].calls[1].text))
              => tasks[t].res = Items(<<>>)

\* complete() found an entry for its file, read a text that does not parse
\* and answered with no candidates.
C8_Witness ==
  \E t \in Requests :
    /\ Completing(t)
    /\ tasks[t].pre # Null
    /\ tasks[t].phase = "done"
    /\ tasks[t].calls[1].text = "broken"
    /\ tasks[t].res = Items(<<>>)

\* moduleByName of request t has answered.
ByNameDone(t) == tasks[t].op = "byName" /\ tasks[t].calls[1].pc = "ret"

\* The project projectForPath finds for the path of request t.
Owner(t) == probable_project(projects, tasks[t].path)

\* The files a module name stands for in the source directories of a project.
LocalPaths(elm_project, module_name) ==
  {Join(elm_project.source_dirs[i], module_relative_path(module_name)) :
     i \in DOMAIN elm_project.source_dirs}

\* C5 as claimed: when a file for the module exists in a source directory of
\* the owning project, moduleByName never returns the module of a dependency,
\* whatever the local file holds (the files never changed: edits = 0).
C5_ShadowingWhateverContent ==
  \A t \in Requests :
    (/\ ByNameDone(t)
     /\ edits = 0
     /\ Owner(t) # Null
     /\ \E p \in LocalPaths(Owner(t), tasks[t].calls[1].name) : diskAt(p) # NoFile
     /\ tasks[t].calls[1].res # Null)
      => Head(tasks[t].calls[1].paths) \in LocalPaths(Owner(t), tasks[t].calls[1].name)

\* C5 as amended: moduleByName returns a dependency's module only after get
\* has returned null for every local candidate (its file unreadable or not
\* parsing when it was read); when the files never changed and a local
\* candidate reads and parses, the answer is that local file's AST.
C5_LocalShadowsWhenItParses ==
  \A t \in Requests :
    (ByNameDone(t) /\ tasks[t].calls[1].res # Null)
      => LET call == tasks[t].calls[1]
             local == LocalPaths(Owner(t), call.name)
         IN  /\ Owner(t) # Null
             /\ Head(call.paths) \notin local
                  => \A p \in local : \E k \in DOMAIN call.failed :
                       call.failed[k][1] = p /\ Unparseable(call.failed[k][2])
             /\ (edits = 0 /\ \E p \in local : ~Unparseable(diskAt(p)))
                  => /\ Head(call.paths) \in local
                     /\ call.res = parseElmModule(diskAt(Head(call.paths)))

\* Module M is in the source directory and in the package; moduleByName
\* answered with the local one.
C5_Witness ==
  \E t \in Requests :
    /\ ByNameDone(t)
    /\ edits = 0
    /\ disk[fLoc] = "locM" /\ disk[fDep] = "depM"
    /\ tasks[t].calls[1].res = parseElmModule("locM")
    /\ Head(tasks[t].calls[1].paths) = fLoc

\* The path lies in a source directory of a loaded project.
Contained(p) ==
  \E i \in DOMAIN projects : \E j \in DOMAIN projects[i].source_dirs :
    startsWith(p, projects[i].source_dirs[j] \o <<Sep>>)

\* C6: projectForPath of a path in no source directory of any loaded project
\* answers NotFound.
C6_OutsideIsNotFound ==
  \A t \in Requests :
    (/\ tasks[t].op = "project"
     /\ tasks[t].calls[1].pc = "ret"
     /\ ~Contained(tasks[t].path))
      => tasks[t].calls[1].res = Null

\* C9: complete() never ends in a thrown error.
C9_CompleteNeverThrows ==
  \A t \in Requests :
    (tasks[t].op = "complete" /\ tasks[t].phase = "done") => tasks[t].res # Rejected

\* The identifier token at the cursor of a document, or NoRange.
IdentToken(d) == getWordRangeAtPosition(d.line, d.pos, IdentChars)

\* The classification C10 states for the identifier token w.
Classified(w) ==
  LET prefix == SubSeq(w, 1, lastIndexOf(w, Dot))
      word   == SubSeq(w, lastIndexOf(w, Dot) + 2, Len(w))
  IN  IF prefix # <<>> \/ (word # <<>> /\ word[1] \in Upper)
        THEN [context |-> "module", prefix |-> prefix, text |-> word]
        ELSE [context |-> "function", prefix |-> <<>>, text |-> word]

\* C10: for every identifier token at the cursor, determineContext yields
\* Module context with the text before the last dot as prefix when that is
\* non-empty or the word after it starts upper-case, and Function context
\* with the word as text otherwise.
C10_ContextClassification ==
  (ctx # Null /\ IdentToken(doc) # NoRange)
    => ctx = Classified(getText(doc.line, IdentToken(doc)))

\* complete() of request t has answered with a candidate list.
Answered(t) ==
  tasks[t].op = "complete" /\ tasks[t].phase = "done" /\ tasks[t].res # Rejected

\* The names of the candidates request t answered with.
Offered(t) == {tasks[t].res.items[k].name : k \in DOMAIN tasks[t].res.items}

\* The current module of request t parsed, and imports module M.
ImportsM(t) ==
  /\ Completing(t)
  /\ tasks[t].calls[1].pc = "ret"
  /\ tasks[t].calls[1].res # Null
  /\ \E k \in DOMAIN tasks[t].calls[1].res.imports :
       tasks[t].calls[1].res.imports[k] = modM

\* C11: when the current module imports a module that exposes a custom type
\* with the constructor Red (module M, read from the source directory), the
\* candidates of complete() at the bare token "R" include Red.
C11_ConstructorOffered ==
  \A t \in Requests :
    (/\ Answered(t)
     /\ tasks[t].doc = Doc(<<"R">>, 1)
     /\ ImportsM(t)
     /\ disk[fLoc] = "locM")
      => <<"Red">> \in Offered(t)

\* The functions a module exposes.
ExposedFunctions(m) ==
  {m.function_declarations[k] : k \in DOMAIN m.function_declarations} \cap m.exposing

\* The module moduleFromName resolved for the import M of request t, or Null.
ImportResolved(t) ==
  LET answered == {k \in 2..Len(tasks[t].calls) :
                     tasks[t].calls[k].name = modM /\ tasks[t].calls[k].pc = "ret"}
  IN  IF answered = {} THEN Null
      ELSE tasks[t].calls[CHOOSE k \in answered : TRUE].res

\* C12: when the current module imports M and M resolves to an AST, complete()
\* at the token "M." is in Module context and its candidates are the functions
\* M's resolved AST exposes, each once, and none is a declaration of the
\* current module.
C12_ModuleMembers ==
  \A t \in Requests :
    (/\ Answered(t)
     /\ tasks[t].doc = Doc(<<"M", Dot>>, 2)
     /\ ImportsM(t)
     /\ ImportResolved(t) # Null)
      => LET items == tasks[t].res.items
             m == ImportResolved(t)
         IN  /\ determineContext(tasks[t].doc.line, tasks[t].doc.pos).context = "module"
             /\ \A f \in ExposedFunctions(m) :
                  \E k \in DOMAIN items :
                    items[k].name = <<f>> /\ items[k].kind = "Function"
             /\ \A k \in DOMAIN items :
                  /\ items[k].module = m.name
                  /\ items[k].module # tasks[t].calls[1].res.name
                  /\ \E f \in ExposedFunctions(m) : items[k].name = <<f>>
             /\ Len(items) = Cardinality(ExposedFunctions(m))

\* complete() at "M." answered with the one function the local module M
\* exposes, while the current module declares a function of its own.
C12_Witness ==
  \E t \in Requests :
    /\ Answered(t)
    /\ tasks[t].doc = Doc(<<"M", Dot>>, 2)
    /\ ImportsM(t)
    /\ tasks[t].calls[1].res.function_declarations # <<>>
    /\ ImportResolved(t) = parseElmModule("locM")
    /\ Offered(t) = {<<"g">>}

\* What moduleFromName answers for module M when the files do not change:
\* the first of the local and the package file that reads and parses.
ResolvesM ==
  IF ~Unparseable(disk[fLoc]) THEN parseElmModule(disk[fLoc])
  ELSE IF ~Unparseable(disk[fDep]) THEN parseElmModule(disk[fDep])
  ELSE Null

\* complete() of request t has answered after resolving the two imports of
\* its current module: Mx (call 2) and M (call 3).
TwoImports(t) ==
  /\ Answered(t)
  /\ ImportsM(t)
  /\ tasks[t].calls[1].res.imports = <<modMx, modM>>
  /\ Len(tasks[t].calls) = 3

\* C13: an import of complete() that does not resolve (Mx: no file in the
\* source directory, none in the package) is dropped, and the other import
\* resolves and contributes as if the failing one were not in the import list:
\* the answer is the candidate list built for the import list <<M>> alone.
C13_FailedImportIsDropped ==
  \A t \in Requests :
    TwoImports(t)
      => LET elm_module == tasks[t].calls[1].res
             dc == determineContext(tasks[t].doc.line, tasks[t].doc.pos)
             without == [elm_module EXCEPT !.imports = <<modM>>]
         IN  /\ tasks[t].calls[2].res = Null
             /\ tasks[t].calls[3].res = ResolvesM
             /\ tasks[t].res.items =
                  assemble(tasks[t].path, without, dc,
                           IF ResolvesM = Null THEN <<>> ELSE <<ResolvesM>>)

\* Import Mx was tried in the source directory and in the package and failed
\* on both, import M resolved to the package's module, and the request
\* answered with the function that module exposes.
C13_Witness ==
  \E t \in Requests :
    /\ TwoImports(t)
    /\ tasks[t].doc = Doc(<<"M", Dot>>, 2)
    /\ Len(tasks[t].calls[2].failed) = 2
    /\ tasks[t].calls[2].res = Null
    /\ tasks[t].calls[3].res = parseElmModule("depM")
    /\ Offered(t) = {<<"k">>}

\* The manifests of the workspace that can be read, are structured data and
\* have the source-directories field, by their position in glob order.
GoodManifests ==
  {i \in DOMAIN workspace :
     /\ workspace[i][2] # Unreadable
     /\ workspace[i][2] # NotJson
     /\ "source_directories" \in DOMAIN workspace[i][2]}

\* The k-th good manifest in glob order.
NthGood(k) ==
  CHOOSE i \in GoodManifests : Cardinality({j \in GoodManifests : j <= i}) = k

\* A call of projectForPath has gone through loadElmProjects and returned.
Loaded ==
  \E t \in Requests :
    tasks[t].op = "project" /\ tasks[t].calls[1].pc = "ret"

\* C14: once a load has answered, the project list holds one definition for
\* every manifest that reads, parses and has source-directories, in glob
\* order, and nothing for the others; a bad manifest drops only itself.
C14_BadManifestsDropped ==
  Loaded
    => /\ Len(projects) = Cardinality(GoodManifests)
       /\ \A k \in DOMAIN projects :
            /\ projects[k].path = workspace[NthGood(k)][1]
            /\ projects[k].source_dirs =
                 << Join(Dirname(workspace[NthGood(k)][1]), <<"src">>) >>
            /\ Len(projects[k].dependencies) = 1

\* Of three manifests the middle one was bad, and the first and the last were
\* loaded in their order.
C14_Witness ==
  /\ Loaded
  /\ Len(workspace) = 3
  /\ GoodManifests = {1, 3}
  /\ Len(projects) = 2
  /\ projects[1].path = workspace[1][1]
  /\ projects[2].path = workspace[3][1]

\* The whole entry a successful parse of text puts in the cache for path p.
EntryOf(p, text) ==
  [module_path |-> p,
   module_name |-> parseElmModule(text).name,
   parsed |-> parseElmModule(text)]

\* Request t, issued in this step, invalidates path p.
Invalidates(t, p) ==
  /\ Issued(t)
  /\ tasks'[t].path = p
  /\ \/ tasks'[t].op = "save"
     \/ tasks'[t].op = "complete" /\ tasks'[t].calls # <<>>

\* C15: with gets of one path in flight together and racing with its
\* invalidation, the entry of a path changes in two ways only: an
\* invalidation of the path removes it, and every parse of the path that
\* finishes with success puts its own whole entry in, replacing whatever was
\* there; so an entry that is present is that of the last successful parse to
\* finish since the last invalidation.
C15_LastParseWins ==
  [][ /\ \A p \in Files :
           cache'[p] # cache[p]
             => \/ cache'[p] = Null /\ \E t \in Requests : Invalidates(t, p)
                \/ \E t \in Requests : \E i \in Calls :
                     /\ Resumed(t, i)
                     /\ Head(tasks[t].calls[i].paths) = p
                     /\ ~Unparseable(tasks[t].calls[i].text)
                     /\ cache'[p] = EntryOf(p, tasks[t].calls[i].text)
      /\ \A t \in Requests : \A i \in Calls :
           (Resumed(t, i) /\ ~Unparseable(tasks[t].calls[i].text))
             => cache'[Head(tasks[t].calls[i].paths)]
                  = EntryOf(Head(tasks[t].calls[i].paths), tasks[t].calls[i].text) ]_vars

\* Two complete() on one file had their gets in flight together (the second
\* invalidated while the first had stored nothing yet), read different texts
\* and both parsed; the cache holds the whole entry of one of them.
C15_Witness ==
  \E t, u \in Requests :
    /\ t < u
    /\ Completing(t) /\ Completing(u)
    /\ tasks[t].path = tasks[u].path
    /\ tasks[u].pre = Null
    /\ tasks[t].calls[1].pc = "ret" /\ tasks[u].calls[1].pc = "ret"
    /\ tasks[t].calls[1].res # Null /\ tasks[u].calls[1].res # Null
    /\ tasks[t].calls[1].res # tasks[u].calls[1].res
    /\ cache[tasks[t].path] = EntryOf(tasks[t].path, tasks[t].calls[1].text)

\* complete() of request t has classified its cursor and started to resolve
\* imports.
PastFilter(t) ==
  /\ ImportsM(t)
  /\ tasks[t].phase \in {"imports", "done"}
  /\ tasks[t].res # Rejected

\* The module names request t called moduleFromName for, in call order.
ResolvedImports(t) ==
  [k \in 1..(Len(tasks[t].calls) - 1) |-> tasks[t].calls[k + 1].name]

\* The imports C16 states are kept: those starting with prefix in Module
\* context and with text in Function context.
ImportsClaimed(elm_module, dc) ==
  LET keep(i) == startsWith(i, IF dc.context = "module" THEN dc.prefix ELSE dc.text)
  IN  SeqFilter(keep, elm_module.imports)

\* C16: the imports complete() resolves are exactly the imports of the current
\* module whose name starts with prefix (Module context) or text (Function
\* context); with an empty prefix in Module context that is every import.
C16_ImportFilter ==
  \A t \in Requests :
    PastFilter(t)
      => ResolvedImports(t) =
           ImportsClaimed(tasks[t].calls[1].res,
                          determineContext(tasks[t].doc.line, tasks[t].doc.pos))

\* The trailing run of the segments of a dotted name that differ from the
\* segments of prefix at the same position (a missing segment differs).
KeptSegments(name, prefix) ==
  LET a == split(name)
      b == split(prefix)
      differs(i) == i > Len(b) \/ a[i] # b[i]
      from == CHOOSE k \in 1..(Len(a) + 1) :
                /\ \A i \in k..Len(a) : differs(i)
                /\ k = 1 \/ ~differs(k - 1)
  IN  SubSeq(a, from, Len(a))

\* Segments written with dots between them.
RECURSIVE Dotted(_)
Dotted(segments) ==
  IF Len(segments) <= 1 THEN (IF segments = <<>> THEN <<>> ELSE Head(segments))
  ELSE Head(segments) \o <<Dot>> \o Dotted(Tail(segments))

\* What C17 states one resolved import contributes, as <<label, kind>> pairs.
Contribution(m, prefix) ==
  IF KeptSegments(m.name, prefix) = <<>>
    THEN LET candidate(f) == << <<f>>, "Function" >>
             exposed(f) == f \in m.exposing
         IN  SeqMap(candidate, SeqFilter(exposed, m.function_declarations))
    ELSE << <<Dotted(KeptSegments(m.name, prefix)), "Class">> >>

RECURSIVE Contributions(_, _)
Contributions(modules, prefix) ==
  IF modules = <<>> THEN <<>>
  ELSE Contribution(Head(modules), prefix) \o Contributions(Tail(modules), prefix)

\* C17: in Module context the candidates are the contributions of the
\* resolved imports in import order: for an import whose name has no trailing
\* segment differing from prefix, one candidate per exposed function;
\* otherwise one module-name candidate labelled with the differing trailing
\* segments joined by dots.
C17_ModuleBranchContributions ==
  offered # Null
    => /\ ctx.context = "module"
       /\ [k \in DOMAIN offered.items |->
             <<offered.items[k].label, offered.items[k].kind>>]
            = Contributions(offered.modules, ctx.prefix)

\* With prefix M, import M contributed its exposed function and import M.N,
\* after it, the module-name candidate N.
C17_Witness ==
  /\ offered # Null
  /\ ctx.prefix = <<"M">>
  /\ offered.modules = <<ModuleNamed(<<"M">>), ModuleNamed(<<"M", Dot, "N">>)>>
  /\ [k \in DOMAIN offered.items |-> offered.items[k].label] = << <<"g">>, <<"N">> >>

\* The i-th candidate C18 states for a module name in a project: the source
\* directories first, then the dependencies' src directories.
CandidateAt(elm_project, module_name, i) ==
  LET n == Len(elm_project.source_dirs)
  IN  IF i <= n
        THEN elm_project.source_dirs[i] \o <<Sep>> \o module_relative_path(module_name)
        ELSE elm_project.dependencies[i - n].package_path
               \o <<Sep, "src", Sep>> \o module_relative_path(module_name)

\* The paths moduleFromName got null for, in the order it tried them.
Tried(call) == [k \in DOMAIN call.failed |-> call.failed[k][1]]

\* C18: the candidates of a module name are one path per source directory in
\* declaration order, then one per dependency in declaration order;
\* moduleByName tries them in that order, every candidate before the one it
\* answers with gave null, and the candidates after it are never tried.
C18_CandidatesInOrder ==
  \A t \in Requests :
    (/\ tasks[t].op = "byName"
     /\ tasks[t].calls[1].pc \in {"reading", "read", "ret"}
     /\ Owner(t) # Null)
      => LET call == tasks[t].calls[1]
             n == Len(Owner(t).source_dirs) + Len(Owner(t).dependencies)
             candidates == [i \in 1..n |-> CandidateAt(Owner(t), call.name, i)]
         IN  /\ moduleNameToPaths(Owner(t), call.name) = candidates
             /\ IF call.pc = "ret" /\ call.res = Null
                  THEN Tried(call) = candidates
                  ELSE Tried(call) \o call.paths = candidates
             /\ \A k \in DOMAIN call.failed : Unparseable(call.failed[k][2])
             /\ (call.pc = "ret" /\ call.res # Null /\ ~call.hit)
                  => call.res = moduleFromPathResult(call.text)

\* moduleByName got null for the first source directory, found module M in
\* the second and answered with it; the two dependencies were not tried.
C18_Witness ==
  \E t \in Requests :
    /\ tasks[t].op = "byName"
    /\ tasks[t].calls[1].pc = "ret"
    /\ tasks[t].calls[1].res = parseElmModule("locM")
    /\ Len(tasks[t].calls[1].failed) = 1
    /\ Head(tasks[t].calls[1].paths) = fLoc
    /\ Len(tasks[t].calls[1].paths) = 3

\* C19: once the project list is non-empty it never changes again.
C19_ProjectsNeverChange ==
  [][projects # <<>> => projects' = projects]_vars

\* C20: a get whose read of the file answered before the path was invalidated
\* does not install what it read when the file has changed since.
C20_NoStaleReinstall ==
  [][ \A t \in Requests : \A i \in Calls :
        (/\ Resumed(t, i)
         /\ tasks[t].calls[i].stale
         /\ tasks[t].calls[i].text # diskAt(Head(tasks[t].calls[i].paths)))
          => cache'[Head(tasks[t].calls[i].paths)] = cache[Head(tasks[t].calls[i].paths)] ]_vars

====
